---- MODULE Spec2Model ----
(***************************************************************************)
(* Goodreads recommendation pipeline: the downsampling stage               *)
(* (src/downsampling.py) and the modeling stage (src/modeling.py).         *)
(*                                                                         *)
(* A DataFrame is an unordered multiset of rows: it is modelled as a       *)
(* function from row values to their multiplicity.  The Spark operators    *)
(* the code calls (join, select, union, subtract, sampleBy, sample,        *)
(* randomSplit, groupBy/count, filter, rank over a window) are modelled by *)
(* their documented semantics; every random draw is a nondeterministic     *)
(* choice over the outcomes the sampler can produce.                       *)
(***************************************************************************)
EXTENDS Integers, Sequences, FiniteSets, TLC

VARIABLES
    \* ---- shared input of both programs
    data,                       \* the interaction table read from parquet
    \* ---- modeling.py: train_val_test_split
    user_train_val_test_split,  \* the three user DataFrames of randomSplit
    train_data, val_data, test_data,
    new_train_data,             \* the driver's union of train_data and val_data
    spc,                        \* position inside train_val_test_split, "refit"
                                \*   once the driver has built new_train_data
    \* ---- downsampling.py: create_subset
    threshold, percentage,
    user_id_frequent,           \* result of get_frequent_user
    user_id_1_perc,             \* the sampled users inside downsampling
    downsample_data,            \* result of downsampling / create_subset
    fpc,                        \* position inside create_subset
    \* ---- modeling.py: tuning_als
    rank_list, regParam_list,   \* the candidate lists, or None
    train_arg, val_arg,         \* the train_data / val_data arguments, or None
    metrics,                    \* the metric name, or None
    tuning_table,               \* dictionary of three lists, None before line 130
    i,                          \* configurations started by the loop
    fits,                       \* models fitted so far (als.fit calls)
    metrics_result,             \* the local of that name, None while unbound
    tuning_result,              \* what the call returned (None before it returns)
    tpc,                        \* position inside tuning_als
    \* ---- modeling.py: the driver (__main__)
    dpc,                        \* the stage the driver is at
    stages,                     \* the stages completed so far, in order
    failed_at,                  \* the stage whose failure aborted the run
    model,                      \* the refitted model: its data and configuration
    test_metrics,               \* the local of that name, None while unbound
    model_saved,                \* a model artifact is at path_of_model
    history,                    \* records appended to tuning_history.txt
    \* ---- modeling.py: the metric evaluators' top-k windows
    dataset,                    \* the predictions handed to the evaluator
    k,                          \* the top-k cutoff
    evaluator,                  \* "regression" or "ranking"
    user_items_prediction_df,   \* regression: the rows with rank <= k
    perUserPredictedItemsDF,    \* ranking: per user, the items of the rows
    perUserActualItemsDF,       \*   with rank <= k (by prediction, by rating)
    kpc                         \* position inside the evaluator

splitVars  == <<user_train_val_test_split, train_data, val_data, test_data,
                new_train_data, spc>>
filterVars == <<threshold, percentage, user_id_frequent, user_id_1_perc,
                downsample_data, fpc>>
tuneVars == <<rank_list, regParam_list, train_arg, val_arg, metrics, tuning_table,
              i, fits, metrics_result, tuning_result, tpc>>
driverVars == <<dpc, stages, failed_at, model, test_metrics, model_saved, history>>
topkVars == <<dataset, k, evaluator, user_items_prediction_df,
              perUserPredictedItemsDF, perUserActualItemsDF, kpc>>
vars == <<data, splitVars, filterVars, tuneVars, driverVars, topkVars>>

\* Python's None and a present value: an optional value is the empty set or a
\* singleton
None == {}
Some(v) == {v}
the(o) == CHOOSE v \in o : TRUE

(***************************************************************************)
(* Bounds of the model.                                                    *)
(***************************************************************************)
MaxRows == 4                    \* rows of an interaction table
Users   == 1..3                 \* user_id values
Books   == 1..2                 \* book_id values

(***************************************************************************)
(* create_schema: the five integer columns of an interaction record.       *)
(***************************************************************************)
schema_names == {"user_id", "book_id", "is_read", "rating", "is_reviewed"}

create_schema ==
    [user_id: Users, book_id: Books, is_read: {1}, rating: {4}, is_reviewed: {0}]

Rows == create_schema

(***************************************************************************)
(* DataFrames as multisets.                                                *)
(***************************************************************************)
RECURSIVE SumOver(_, _)
SumOver(f, S) ==
    IF S = {} THEN 0
    ELSE LET x == CHOOSE y \in S : TRUE IN f[x] + SumOver(f, S \ {x})

\* DataFrame.count()
count(t) == SumOver(t, DOMAIN t)

Support(t) == {r \in DOMAIN t : t[r] > 0}

EmptyTable == [r \in Rows |-> 0]
EmptyUsers == [u \in Users |-> 0]

RECURSIVE TableOf(_)
TableOf(s) ==
    IF s = <<>> THEN EmptyTable
    ELSE LET t == TableOf(Tail(s)) IN [t EXCEPT ![Head(s)] = @ + 1]

\* every interaction table of at most MaxRows rows, duplicates included
Tables == {TableOf(s) : s \in UNION {[1..n -> Rows] : n \in 0..MaxRows}}

\* number of rows of user u in table t
UserCount(t, u) == SumOver(t, {r \in DOMAIN t : r.user_id = u})

\* every multiset contained in t
RECURSIVE SubBagsOver(_, _)
SubBagsOver(t, S) ==
    IF S = {} THEN {[x \in DOMAIN t |-> 0]}
    ELSE LET r == CHOOSE y \in S : TRUE
         IN  {[s EXCEPT ![r] = c] : s \in SubBagsOver(t, S \ {r}), c \in 0..t[r]}

SubBags(t) == SubBagsOver(t, Support(t))

(***************************************************************************)
(* Spark operators used by the code.                                       *)
(***************************************************************************)
\* data.select(user).distinct(): one row per user id that occurs
select_distinct_user(t) ==
    [u \in Users |-> IF UserCount(t, u) > 0 THEN 1 ELSE 0]

\* a join without the key condition (a cross join)
join_cross(left, users) == [r \in Rows |-> left[r] * SumOver(users, Users)]

\* left.join(users, on=user, how='inner'): every pair of a left row and a
\* users row with the same user id; users has the key column only
join(left, users) == [r \in Rows |-> left[r] * users[r.user_id]]

\* df.select(names): project every row on the named columns, keeping
\* multiplicities
select(t, names) ==
    LET proj(r) == [n \in names |-> r[n]]
        out     == {proj(r) : r \in DOMAIN t}
    IN  [q \in out |-> SumOver(t, {r \in DOMAIN t : proj(r) = q})]

\* a.union(b) / DataFrame.unionAll: UNION ALL, duplicates kept
union(a, b) == [r \in Rows |-> a[r] + b[r]]

\* EXCEPT ALL: a copy of a row is taken away for each copy in b
subtract_exceptAll(a, b) == [r \in Rows |-> IF a[r] > b[r] THEN a[r] - b[r] ELSE 0]

\* the distinct rows of a, nothing taken away
subtract_nothing(a, b) == [r \in Rows |-> IF a[r] > 0 THEN 1 ELSE 0]

\* a.subtract(b): EXCEPT DISTINCT, the distinct rows of a whose value does
\* not occur in b
subtract(a, b) == [r \in Rows |-> IF a[r] > 0 /\ b[r] = 0 THEN 1 ELSE 0]

\* df.sampleBy(user, fractions, seed): a Bernoulli draw per row with the
\* fraction of the row's stratum (percent); a stratum missing from the
\* dictionary has fraction 0.  The set of outcomes the draw can give.
sampleBy(t, fractions) ==
    {s \in SubBags(t) :
        \A r \in Rows :
            /\ fractions[r.user_id] = 0   => s[r] = 0
            /\ fractions[r.user_id] = 100 => s[r] = t[r]}

\* users.randomSplit([0.6, 0.2, 0.2], seed): every row of users lands in
\* exactly one of the three outputs.  The set of outcomes.
randomSplit(users) ==
    {<<[u \in Users |-> IF g[u] = 1 THEN users[u] ELSE 0],
       [u \in Users |-> IF g[u] = 2 THEN users[u] ELSE 0],
       [u \in Users |-> IF g[u] = 3 THEN users[u] ELSE 0]>> :
        g \in {h \in [Users -> 1..3] : \A u \in Users : users[u] = 0 => h[u] = 1}}

(***************************************************************************)
(* modeling.py: customized_split_func.  The set of results                 *)
(* <<train_val_data, val_data>> the call can return.  val_data is used     *)
(* twice (line 60 and the return value); the draw is seeded, so both uses  *)
(* see the same sample.                                                    *)
(***************************************************************************)
customized_split_func(data_, train, val_user) ==
    LET val_data_temp == select(join(data_, val_user), schema_names)
        val_frac      == [u \in Users |-> IF val_user[u] > 0 THEN 50 ELSE 0]
    IN  {<<union(train, subtract(val_data_temp, held)), held>> :
            held \in sampleBy(val_data_temp, val_frac)}

(***************************************************************************)
(* modeling.py: train_val_test_split, statement by statement.              *)
(***************************************************************************)
\* line 75: split by the users
SplitUsers ==
    /\ spc = "users"
    /\ \E parts \in randomSplit(select_distinct_user(data)) :
            user_train_val_test_split' = parts
    /\ spc' = "train"
    /\ UNCHANGED <<data, train_data, val_data, test_data, new_train_data, filterVars, tuneVars, driverVars, topkVars>>

\* lines 77-81: the rows of the train-group users
SplitTrain ==
    /\ spc = "train"
    /\ train_data' = select(join(data, user_train_val_test_split[1]), schema_names)
    /\ spc' = "val"
    /\ UNCHANGED <<data, user_train_val_test_split, val_data, test_data, new_train_data, filterVars, tuneVars, driverVars, topkVars>>

\* lines 84-89: hold out rows of the validation-group users
SplitVal ==
    /\ spc = "val"
    /\ \E res \in customized_split_func(data, train_data, user_train_val_test_split[2]) :
            /\ train_data' = res[1]
            /\ val_data'   = res[2]
    /\ spc' = "test"
    /\ UNCHANGED <<data, user_train_val_test_split, test_data, new_train_data, filterVars, tuneVars, driverVars, topkVars>>

\* lines 91-97: hold out rows of the test-group users, return
SplitTest ==
    /\ spc = "test"
    /\ \E res \in customized_split_func(data, train_data, user_train_val_test_split[3]) :
            /\ train_data' = res[1]
            /\ test_data'  = res[2]
    /\ spc' = "done"
    /\ UNCHANGED <<data, user_train_val_test_split, val_data, new_train_data, filterVars, tuneVars, driverVars, topkVars>>

(***************************************************************************)
(* modeling.py: unionAll, and its use by the driver on the tables that     *)
(* train_val_test_split returned.  tuning_als, which runs in between,      *)
(* reads train_data and val_data and changes neither.                      *)
(***************************************************************************)
\* lines 63-68: reduce(DataFrame.unionAll, dataframes), left to right, over
\* a non-empty list
RECURSIVE unionAll(_)
unionAll(dataframes) ==
    IF Len(dataframes) = 1 THEN dataframes[1]
    ELSE union(unionAll(SubSeq(dataframes, 1, Len(dataframes) - 1)),
               dataframes[Len(dataframes)])

\* lines 328-331: the table the final model is fitted on
DriverUnion ==
    /\ spc = "done"
    /\ new_train_data' = unionAll(<<train_data, val_data>>)
    /\ spc' = "refit"
    /\ UNCHANGED <<data, user_train_val_test_split, train_data, val_data, test_data,
                   filterVars, tuneVars, driverVars, topkVars>>

(***************************************************************************)
(* downsampling.py: get_frequent_user.                                     *)
(***************************************************************************)
Digits == <<"0", "1", "2", "3", "4", "5", "6", "7", "8", "9">>

\* Python str() of an integer: its decimal digits, "-" first when negative
RECURSIVE str_nat(_)
str_nat(n) ==
    IF n < 10 THEN <<Digits[n + 1]>>
    ELSE Append(str_nat(n \div 10), Digits[(n % 10) + 1])

str(n) == IF n < 0 THEN <<"-">> \o str_nat(0 - n) ELSE str_nat(n)

\* the integer literal the SQL expression parser reads from a digit string
DigitValue(c) == (CHOOSE d \in 1..10 : Digits[d] = c) - 1

RECURSIVE literal_nat(_)
literal_nat(s) ==
    IF s = <<>> THEN 0
    ELSE 10 * literal_nat(SubSeq(s, 1, Len(s) - 1)) + DigitValue(s[Len(s)])

literal(s) == IF Head(s) = "-" THEN 0 - literal_nat(Tail(s)) ELSE literal_nat(s)

\* data.groupBy(user).count(): one (user, count) row per user that occurs
groupBy_count(t) ==
    {[user_id |-> u, count |-> UserCount(t, u)] :
        u \in {v \in Users : UserCount(t, v) > 0}}

\* .filter("count>=" + text): the rows whose count column is at least the
\* literal of the expression
filter_count_ge(rows, text) == {row \in rows : row.count >= literal(text)}

\* .select(user) of a set of (user, count) rows
select_user(rows) ==
    [u \in Users |-> Cardinality({row \in rows : row.user_id = u})]

\* lines 35-38
frequent_users(t, thr) == select_user(filter_count_ge(groupBy_count(t), str(thr)))

\* line 35: n_users, the divisor of the percentage printed on lines 40-41
n_users(t) == count(select_distinct_user(t))

\* line 41 divides by n_users: ZeroDivisionError on a table without rows
get_frequent_user_raises(t) == n_users(t) = 0

\* create_subset line 108 -> get_frequent_user (lines 25-46)
GetFrequentUser ==
    /\ fpc = "filter"
    /\ IF get_frequent_user_raises(data)
       THEN /\ fpc' = "fault"
            /\ UNCHANGED user_id_frequent
       ELSE /\ user_id_frequent' = frequent_users(data, threshold)
            /\ fpc' = "sample"
    /\ UNCHANGED <<data, threshold, percentage, user_id_1_perc, downsample_data,
                   splitVars, tuneVars, driverVars, topkVars>>

(***************************************************************************)
(* downsampling.py: downsampling.                                          *)
(***************************************************************************)
\* user_df.sample(False, fraction, seed): Bernoulli draw per row, without
\* replacement (fraction in percent).  The set of outcomes.
sample(users, fraction) ==
    {s \in SubBags(users) :
        /\ fraction = 0    => s = EmptyUsers
        /\ fraction >= 100 => s = users}

\* line 59
downsample_join(data_, users) == select(join(data_, users), schema_names)

\* create_subset lines 111-113 -> downsampling (lines 49-62)
Downsampling ==
    /\ fpc = "sample"
    /\ \E drawn \in sample(user_id_frequent, percentage) :
            /\ user_id_1_perc' = drawn
            /\ downsample_data' = downsample_join(data, drawn)
    /\ fpc' = "done"
    /\ UNCHANGED <<data, threshold, percentage, user_id_frequent, splitVars, tuneVars, driverVars, topkVars>>

Thresholds  == (-1 .. MaxRows + 1) \cup {20, 500}
Percentages == {0, 1, 50, 100}

(***************************************************************************)
(* modeling.py: tuning_als.                                                *)
(***************************************************************************)
\* lines 153 and 174; lines 160 and 177
regression_metrics == {"rmse", "mae", "r2"}
ranking_metrics    == {"precisionAt", "meanAveragePrecision", "ndcgAt"}

\* product with the two loops exchanged
RECURSIVE product_swapped(_, _)
product_swapped(a, b) ==
    IF b = <<>> THEN <<>>
    ELSE [j \in 1..Len(a) |-> <<a[j], Head(b)>>] \o product_swapped(a, Tail(b))

\* itertools.product(a, b): for each element of a, in order, every element
\* of b, in order
RECURSIVE product(_, _)
product(a, b) ==
    IF a = <<>> THEN <<>>
    ELSE [j \in 1..Len(b) |-> <<Head(a), b[j]>>] \o product(Tail(a), b)

\* Python round(x, 4), round-half-even; x in units of 0.00001, the result in
\* units of 0.0001
round4(x) ==
    LET q == x \div 10
        r == x % 10
    IN  IF r > 5 \/ (r = 5 /\ q % 2 = 1) THEN q + 1 ELSE q

\* np.argmax on a non-empty list: the first index of the largest element
argmax(s) ==
    CHOOSE b \in 1..Len(s) :
        /\ \A j \in 1..Len(s) : s[b] >= s[j]
        /\ \A j \in 1..(b - 1) : s[j] # s[b]

\* the first index of the largest element, where the smallest is wanted
argmin_takes_largest(s) ==
    CHOOSE b \in 1..Len(s) :
        /\ \A j \in 1..Len(s) : s[b] >= s[j]
        /\ \A j \in 1..(b - 1) : s[j] # s[b]

\* np.argmin on a non-empty list: the first index of the smallest element
argmin(s) ==
    CHOOSE b \in 1..Len(s) :
        /\ \A j \in 1..Len(s) : s[b] <= s[j]
        /\ \A j \in 1..(b - 1) : s[j] # s[b]

\* line 135
param_combination == product(the(rank_list), the(regParam_list))

\* the data sets reported missing only when both are
required_argument_missing_both_data ==
    \/ rank_list = None \/ regParam_list = None
    \/ (train_arg = None /\ val_arg = None)
    \/ metrics = None

\* lines 120, 123, 126: a required argument is None
required_argument_missing ==
    \/ rank_list = None \/ regParam_list = None
    \/ train_arg = None \/ val_arg = None
    \/ metrics = None

\* lines 120-132: report a missing argument and return, or create the table
TuneCheckArguments ==
    /\ tpc = "call"
    /\ IF required_argument_missing
       THEN /\ tuning_result' = None
            /\ tpc' = "returned"
            /\ UNCHANGED tuning_table
       ELSE /\ tuning_table' = Some([key \in {"rank", "regParam", the(metrics)} |-> <<>>])
            /\ tpc' = "loop"
            /\ UNCHANGED tuning_result
    /\ UNCHANGED <<rank_list, regParam_list, train_arg, val_arg, metrics, i, fits,
                   metrics_result, data, splitVars, filterVars, driverVars, topkVars>>

\* lines 136-143: start the next configuration, append its rank and regParam
TuneAppendParams ==
    /\ tpc = "loop"
    /\ i < Len(param_combination)
    /\ LET params == param_combination[i + 1]
       IN  tuning_table' =
              Some([[the(tuning_table) EXCEPT !["rank"] = Append(@, params[1])]
                        EXCEPT !["regParam"] = Append(@, params[2])])
    /\ i' = i + 1
    /\ tpc' = "fit"
    /\ UNCHANGED <<rank_list, regParam_list, train_arg, val_arg, metrics, fits,
                   metrics_result, tuning_result, data, splitVars, filterVars, driverVars, topkVars>>

\* lines 146-150: fit one model on the training set; the engine may fail
TuneFit ==
    /\ tpc = "fit"
    /\ \/ /\ fits' = fits + 1
          /\ tpc' = "eval"
       \/ /\ tpc' = "fault"
          /\ UNCHANGED fits
    /\ UNCHANGED <<rank_list, regParam_list, train_arg, val_arg, metrics, tuning_table,
                   i, metrics_result, tuning_result, data, splitVars, filterVars, driverVars, topkVars>>

\* the scores an evaluator may return, in units of 0.00001
RawScores == {15, 90000, 120000}

\* the second branch as a plain else: every metric name gets a score
TuneEvaluate_else_scores_any_name ==
    /\ tpc = "eval"
    /\ \E score \in RawScores : metrics_result' = Some(score)
    /\ tpc' = "record"
    /\ UNCHANGED <<rank_list, regParam_list, train_arg, val_arg, metrics, tuning_table,
                   i, fits, tuning_result, data, splitVars, filterVars, driverVars, topkVars>>

\* lines 151-166: predict on the validation set and score; with a metric
\* name of neither family no branch assigns metrics_result
TuneEvaluate ==
    /\ tpc = "eval"
    /\ IF the(metrics) \in regression_metrics \cup ranking_metrics
       THEN \E score \in RawScores : metrics_result' = Some(score)
       ELSE UNCHANGED metrics_result
    /\ tpc' = "record"
    /\ UNCHANGED <<rank_list, regParam_list, train_arg, val_arg, metrics, tuning_table,
                   i, fits, tuning_result, data, splitVars, filterVars, driverVars, topkVars>>

\* lines 168-170: append the rounded score; reading an unbound
\* metrics_result raises
TuneAppendMetric ==
    /\ tpc = "record"
    /\ IF metrics_result = None
       THEN /\ tpc' = "fault"
            /\ UNCHANGED tuning_table
       ELSE /\ tuning_table' =
                  Some([the(tuning_table) EXCEPT
                            ![the(metrics)] = Append(@, round4(the(metrics_result)))])
            /\ tpc' = "loop"
    /\ UNCHANGED <<rank_list, regParam_list, train_arg, val_arg, metrics, i, fits,
                   metrics_result, tuning_result, data, splitVars, filterVars, driverVars, topkVars>>

\* lines 174-179: the index of the best record; no branch assigns it for a
\* metric of neither family, np.argmin / np.argmax raise on an empty list
best_index_defined ==
    /\ the(metrics) \in regression_metrics \cup ranking_metrics
    /\ the(tuning_table)[the(metrics)] # <<>>

best_index ==
    IF the(metrics) \in regression_metrics
    THEN argmin(the(tuning_table)[the(metrics)])
    ELSE argmax(the(tuning_table)[the(metrics)])

\* lines 173, 182-184
best_param_dict ==
    (the(metrics) :> the(tuning_table)[the(metrics)][best_index])
        @@ ("regParam" :> the(tuning_table)["regParam"][best_index])
        @@ ("rank" :> the(tuning_table)["rank"][best_index])

\* lines 172-185: after the loop, select the best record and return
TuneSelectBest ==
    /\ tpc = "loop"
    /\ i = Len(param_combination)
    /\ IF best_index_defined
       THEN /\ tuning_result' = Some(<<best_param_dict, the(tuning_table)>>)
            /\ tpc' = "returned"
       ELSE /\ tpc' = "fault"
            /\ UNCHANGED tuning_result
    /\ UNCHANGED <<rank_list, regParam_list, train_arg, val_arg, metrics, tuning_table,
                   i, fits, metrics_result, data, splitVars, filterVars, driverVars, topkVars>>

MaxRankLen    == 2
Ranks         == {5, 10}
RankLists     == UNION {[1..n -> Ranks] : n \in 0..MaxRankLen}
\* regularisation values in units of 0.01
RegParamLists == {<<>>, <<1>>, <<1, 10>>, <<10, 10>>}
MetricNames   == regression_metrics \cup ranking_metrics \cup {"accuracy", "rank", "regParam"}

(***************************************************************************)
(* modeling.py: the driver, lines 278-394.  Every stage that runs the      *)
(* engine or touches a file may fail; an uncaught failure ends the         *)
(* process.                                                                *)
(***************************************************************************)
\* the stage entered after a stage completes, in a driver that writes the
\* history record before it saves the model
stage_after_log_first(stage) ==
    CASE stage = "read"    -> "split"
      [] stage = "split"   -> "tune"
      [] stage = "tune"    -> "refit"
      [] stage = "refit"   -> "predict"
      [] stage = "predict" -> "score"
      [] stage = "score"   -> "log"
      [] stage = "log"     -> "persist"
      [] stage = "persist" -> "done"

\* the order of the statements of the driver
stage_after(stage) ==
    CASE stage = "read"    -> "split"
      [] stage = "split"   -> "tune"
      [] stage = "tune"    -> "refit"
      [] stage = "refit"   -> "predict"
      [] stage = "predict" -> "score"
      [] stage = "score"   -> "persist"
      [] stage = "persist" -> "log"
      [] stage = "log"     -> "done"

Complete(stage) ==
    /\ stages' = Append(stages, stage)
    /\ dpc' = stage_after(stage)
    /\ UNCHANGED failed_at

Abort(stage) ==
    /\ dpc' = "aborted"
    /\ failed_at' = Some(stage)
    /\ UNCHANGED stages

\* lines 301-304: read the parquet file
DriverRead ==
    /\ dpc = "read"
    /\ \/ Complete("read")
       \/ Abort("read")
    /\ UNCHANGED <<model, test_metrics, model_saved, history, data, splitVars,
                   filterVars, tuneVars, topkVars>>

\* lines 307-309: train_val_test_split
DriverSplit ==
    /\ dpc = "split"
    /\ \/ /\ Complete("split")
          /\ train_arg' = Some("train_data")
          /\ val_arg' = Some("val_data")
       \/ /\ Abort("split")
          /\ UNCHANGED <<train_arg, val_arg>>
    /\ UNCHANGED <<model, test_metrics, model_saved, history, data, splitVars,
                   filterVars, rank_list, regParam_list, metrics, tuning_table, i,
                   fits, metrics_result, tuning_result, tpc, topkVars>>

\* lines 318-322: call tuning_als
DriverCallTuning ==
    /\ dpc = "tune"
    /\ tpc = "idle"
    /\ tpc' = "call"
    /\ UNCHANGED <<driverVars, data, splitVars, filterVars, rank_list, regParam_list,
                   train_arg, val_arg, metrics, tuning_table, i, fits,
                   metrics_result, tuning_result, topkVars>>

\* tuning_als raised: the fault propagates out of the driver
DriverTuningRaised ==
    /\ dpc = "tune"
    /\ tpc = "fault"
    /\ Abort("tune")
    /\ UNCHANGED <<model, test_metrics, model_saved, history, data, splitVars,
                   filterVars, tuneVars, topkVars>>

\* lines 324-326: subscripting the None that tuning_als returned raises
\* TypeError; otherwise the best rank and regParam are taken
DriverUnpack ==
    /\ dpc = "tune"
    /\ tpc = "returned"
    /\ IF tuning_result = None THEN Abort("tune") ELSE Complete("tune")
    /\ UNCHANGED <<model, test_metrics, model_saved, history, data, splitVars,
                   filterVars, tuneVars, topkVars>>

best_config == the(tuning_result)[1]

\* lines 331-340: fit the best configuration on train + val
DriverRefit ==
    /\ dpc = "refit"
    /\ \/ /\ Complete("refit")
          /\ model' = Some([data |-> <<the(train_arg), the(val_arg)>>,
                            rank |-> best_config["rank"],
                            regParam |-> best_config["regParam"]])
       \/ /\ Abort("refit")
          /\ UNCHANGED model
    /\ UNCHANGED <<test_metrics, model_saved, history, data, splitVars, filterVars,
                   tuneVars, topkVars>>

\* lines 341-342: predict on the test set
DriverPredict ==
    /\ dpc = "predict"
    /\ \/ Complete("predict")
       \/ Abort("predict")
    /\ UNCHANGED <<model, test_metrics, model_saved, history, data, splitVars,
                   filterVars, tuneVars, topkVars>>

\* lines 344-364: score the test predictions; a metric name of neither
\* family leaves test_metrics unbound
DriverScore ==
    /\ dpc = "score"
    /\ \/ /\ Complete("score")
          /\ IF the(metrics) \in regression_metrics \cup ranking_metrics
             THEN \E score \in RawScores : test_metrics' = Some(score)
             ELSE UNCHANGED test_metrics
       \/ /\ Abort("score")
          /\ UNCHANGED test_metrics
    /\ UNCHANGED <<model, model_saved, history, data, splitVars, filterVars, tuneVars, topkVars>>

\* lines 366-369: save the model, overwriting
DriverPersist ==
    /\ dpc = "persist"
    /\ \/ /\ Complete("persist")
          /\ model_saved' = TRUE
       \/ /\ Abort("persist")
          /\ UNCHANGED model_saved
    /\ UNCHANGED <<model, test_metrics, history, data, splitVars, filterVars, tuneVars, topkVars>>

\* lines 371-394: append the record; open() may fail, and rounding an
\* unbound test_metrics raises
DriverLog ==
    /\ dpc = "log"
    /\ \/ /\ test_metrics # None
          /\ Complete("log")
          /\ history' = history + 1
       \/ /\ Abort("log")
          /\ UNCHANGED history
    /\ UNCHANGED <<model, test_metrics, model_saved, data, splitVars, filterVars,
                   tuneVars, topkVars>>

(***************************************************************************)
(* modeling.py: the per-user top-k window of top_k_regressionmetrics and   *)
(* top_k_rankingmetrics.                                                   *)
(***************************************************************************)
MaxPredRows == 3                \* rows of a prediction table
MaxK        == 2                \* largest top-k cutoff
PredUsers   == 1..2
Ratings     == {3, 5}
Predictions == {1, 2}           \* predicted scores

\* the columns of model.transform(data) that the evaluators read
PredRows ==
    [user_id: PredUsers, book_id: Books, rating: Ratings, prediction: Predictions]

RECURSIVE PredTableOf(_)
PredTableOf(s) ==
    IF s = <<>> THEN [r \in PredRows |-> 0]
    ELSE LET t == PredTableOf(Tail(s)) IN [t EXCEPT ![Head(s)] = @ + 1]

PredTables ==
    {PredTableOf(s) : s \in UNION {[1..n -> PredRows] : n \in 0..MaxPredRows}}

\* F.rank().over(Window.partitionBy(user).orderBy(col(column).desc())):
\* one more than the number of rows of the same user with a greater value,
\* so rows with equal values share a rank
window_rank(t, r, column) ==
    1 + SumOver(t, {q \in DOMAIN t : q.user_id = r.user_id /\ q[column] > r[column]})

\* .select(..., rank) .where('rank <= k'): lines 203-205, 210-212, 251-253
top_k_window(t, column, cutoff) ==
    [r \in DOMAIN t |-> IF window_rank(t, r, column) <= cutoff THEN t[r] ELSE 0]

\* .groupBy(user).agg(collect_list(item)): per user with a row, the items of
\* the user's rows (a list in no particular order: a multiset)
collect_items(t) ==
    [u \in {r.user_id : r \in Support(t)} |->
        [b \in Books |-> SumOver(t, {r \in DOMAIN t : r.user_id = u /\ r.book_id = b})]]

NoItems == [u \in {} |-> 0]

\* top_k_regressionmetrics lines 249-253
RegressionWindow ==
    /\ kpc = "window"
    /\ evaluator = "regression"
    /\ user_items_prediction_df' = top_k_window(dataset, "prediction", k)
    /\ kpc' = "evaluate"
    /\ UNCHANGED <<dataset, k, evaluator, perUserPredictedItemsDF,
                   perUserActualItemsDF, data, splitVars, filterVars, tuneVars,
                   driverVars>>

\* top_k_rankingmetrics lines 201-207
RankingPredictedWindow ==
    /\ kpc = "window"
    /\ evaluator = "ranking"
    /\ perUserPredictedItemsDF' = collect_items(top_k_window(dataset, "prediction", k))
    /\ kpc' = "actual"
    /\ UNCHANGED <<dataset, k, evaluator, user_items_prediction_df,
                   perUserActualItemsDF, data, splitVars, filterVars, tuneVars,
                   driverVars>>

\* top_k_rankingmetrics lines 208-214
RankingActualWindow ==
    /\ kpc = "actual"
    /\ perUserActualItemsDF' = collect_items(top_k_window(dataset, "rating", k))
    /\ kpc' = "evaluate"
    /\ UNCHANGED <<dataset, k, evaluator, user_items_prediction_df,
                   perUserPredictedItemsDF, data, splitVars, filterVars, tuneVars,
                   driverVars>>

(***************************************************************************)
(* Specifications.                                                         *)
(***************************************************************************)
SplitIdle ==
    /\ user_train_val_test_split = <<EmptyUsers, EmptyUsers, EmptyUsers>>
    /\ train_data = EmptyTable
    /\ val_data = EmptyTable
    /\ test_data = EmptyTable
    /\ new_train_data = EmptyTable
    /\ spc = "users"

FilterIdle ==
    /\ threshold = 0
    /\ percentage = 0
    /\ user_id_frequent = EmptyUsers
    /\ user_id_1_perc = EmptyUsers
    /\ downsample_data = EmptyTable
    /\ fpc = "filter"

TuneIdle ==
    /\ rank_list = None
    /\ regParam_list = None
    /\ train_arg = None
    /\ val_arg = None
    /\ metrics = None
    /\ tuning_table = None
    /\ i = 0
    /\ fits = 0
    /\ metrics_result = None
    /\ tuning_result = None
    /\ tpc = "call"

DriverIdle ==
    /\ dpc = "read"
    /\ stages = <<>>
    /\ failed_at = None
    /\ model = None
    /\ test_metrics = None
    /\ model_saved = FALSE
    /\ history = 0

TopKIdle ==
    /\ dataset = [r \in PredRows |-> 0]
    /\ k = 1
    /\ evaluator = "regression"
    /\ user_items_prediction_df = [r \in PredRows |-> 0]
    /\ perUserPredictedItemsDF = NoItems
    /\ perUserActualItemsDF = NoItems
    /\ kpc = "window"

SplitInit ==
    /\ data \in Tables
    /\ SplitIdle
    /\ FilterIdle
    /\ TuneIdle
    /\ DriverIdle
    /\ TopKIdle

train_val_test_split == SplitUsers \/ SplitTrain \/ SplitVal \/ SplitTest

SpecSplit == SplitInit /\ [][train_val_test_split]_vars

\* the split followed by the union the driver refits on
split_and_union == train_val_test_split \/ DriverUnion

SpecRefitData == SplitInit /\ [][split_and_union]_vars

FilterInit ==
    /\ data \in Tables
    /\ threshold \in Thresholds
    /\ percentage \in Percentages
    /\ user_id_frequent = EmptyUsers
    /\ user_id_1_perc = EmptyUsers
    /\ downsample_data = EmptyTable
    /\ fpc = "filter"
    /\ SplitIdle
    /\ TuneIdle
    /\ DriverIdle
    /\ TopKIdle

create_subset == GetFrequentUser \/ Downsampling

SpecFilter == FilterInit /\ [][create_subset]_vars

TuneInit ==
    /\ rank_list \in {None} \cup {Some(l) : l \in RankLists}
    /\ regParam_list \in {None} \cup {Some(l) : l \in RegParamLists}
    /\ train_arg \in {None, Some("train_data")}
    /\ val_arg \in {None, Some("val_data")}
    /\ metrics \in {None} \cup {Some(m) : m \in MetricNames}
    /\ tuning_table = None
    /\ i = 0
    /\ fits = 0
    /\ metrics_result = None
    /\ tuning_result = None
    /\ tpc = "call"
    /\ data = EmptyTable
    /\ SplitIdle
    /\ FilterIdle
    /\ DriverIdle
    /\ TopKIdle

tuning_als ==
    \/ TuneCheckArguments \/ TuneAppendParams \/ TuneFit \/ TuneEvaluate
    \/ TuneAppendMetric \/ TuneSelectBest

SpecTune == TuneInit /\ [][tuning_als]_vars

\* lines 281-298: the arguments; eval() gives the two lists, --metrics may
\* be absent (None)
DriverInit ==
    /\ rank_list \in {Some(l) : l \in RankLists}
    /\ regParam_list \in {Some(l) : l \in RegParamLists}
    /\ metrics \in {None} \cup {Some(m) : m \in MetricNames}
    /\ train_arg = None
    /\ val_arg = None
    /\ tuning_table = None
    /\ i = 0
    /\ fits = 0
    /\ metrics_result = None
    /\ tuning_result = None
    /\ tpc = "idle"
    /\ data = EmptyTable
    /\ SplitIdle
    /\ FilterIdle
    /\ DriverIdle
    /\ TopKIdle

main ==
    \/ DriverRead \/ DriverSplit \/ DriverCallTuning \/ tuning_als
    \/ DriverTuningRaised \/ DriverUnpack \/ DriverRefit \/ DriverPredict
    \/ DriverScore \/ DriverPersist \/ DriverLog

SpecDriver == DriverInit /\ [][main]_vars

TopKInit ==
    /\ dataset \in PredTables
    /\ k \in 1..MaxK
    /\ evaluator \in {"regression", "ranking"}
    /\ user_items_prediction_df = [r \in PredRows |-> 0]
    /\ perUserPredictedItemsDF = NoItems
    /\ perUserActualItemsDF = NoItems
    /\ kpc = "window"
    /\ data = EmptyTable
    /\ SplitIdle
    /\ FilterIdle
    /\ TuneIdle
    /\ DriverIdle

top_k_windows == RegressionWindow \/ RankingPredictedWindow \/ RankingActualWindow

SpecTopK == TopKInit /\ [][top_k_windows]_vars

(***************************************************************************)
(* Claims about train_val_test_split (SpecSplit).                          *)
(***************************************************************************)
trainGroup == user_train_val_test_split[1]
valGroup   == user_train_val_test_split[2]
testGroup  == user_train_val_test_split[3]

\* C1: after train_val_test_split every input row is in exactly one of
\* train, val, test: for every row value, duplicates included, its
\* multiplicities in the three splits add up to its multiplicity in the input.
C1_EveryRowInExactlyOneSplit ==
    spc = "done" =>
        \A r \in Rows : train_data[r] + val_data[r] + test_data[r] = data[r]

\* of the n rows of user u one half is in held (rounded either way for an
\* odd n) and the other half in train
HalfHeldOut(u, held) ==
    LET n == UserCount(data, u)
        h == UserCount(held, u)
    IN  /\ h \in {n \div 2, n - (n \div 2)}
        /\ UserCount(train_data, u) = n - h

HeldOutAndFolded(u, held) ==
    \A r \in Rows : r.user_id = u =>
        /\ held[r] <= data[r]
        /\ train_data[r] = IF data[r] > 0 /\ held[r] = 0 THEN 1 ELSE 0

GroupsPartitionUsers ==
    \A u \in Users :
        trainGroup[u] + valGroup[u] + testGroup[u]
            = IF UserCount(data, u) > 0 THEN 1 ELSE 0

\* C9: every distinct user is in exactly one group; all rows of train-group
\* users are in train, val rows belong to validation-group users, test rows
\* to test-group users, and train is the train-group rows plus exactly the
\* rows of validation-group and test-group users that were not held out.
C9_SplitsRespectGroups ==
    /\ spc # "users" => GroupsPartitionUsers
    /\ spc = "done" =>
          \A r \in Rows :
              /\ trainGroup[r.user_id] > 0 => train_data[r] = data[r]
              /\ val_data[r] > 0  => valGroup[r.user_id] > 0
              /\ test_data[r] > 0 => testGroup[r.user_id] > 0
              /\ train_data[r] =
                    join(data, trainGroup)[r]
                    + (join(data, valGroup)[r] - val_data[r])
                    + (join(data, testGroup)[r] - test_data[r])

\* without duplicate rows in the input the splits do partition the rows
NoDuplicateRows == \A r \in Rows : data[r] <= 1

RowsPartitionedWithoutDuplicates ==
    (spc = "done" /\ NoDuplicateRows) =>
        \A r \in Rows : train_data[r] + val_data[r] + test_data[r] = data[r]

\* the part of C9 that holds for every input
GroupsRespected ==
    /\ spc # "users" => GroupsPartitionUsers
    /\ spc = "done" =>
          \A r \in Rows :
              /\ trainGroup[r.user_id] > 0 => train_data[r] = data[r]
              /\ val_data[r] > 0  => valGroup[r.user_id] > 0
              /\ test_data[r] > 0 => testGroup[r.user_id] > 0

\* C11: after train_val_test_split every user with at least one row in val
\* or in test also has at least one row in train.
C11_EvalUsersKeepTrainRow ==
    spc = "done" =>
        \A u \in Users :
            (UserCount(val_data, u) > 0 \/ UserCount(test_data, u) > 0)
                => UserCount(train_data, u) > 0

\* an evaluation user loses training coverage even in a table without
\* duplicate rows: the claim fails by the per-row draw alone
C11_WithoutDuplicates ==
    (spc = "done" /\ NoDuplicateRows) =>
        \A u \in Users :
            (UserCount(val_data, u) > 0 \/ UserCount(test_data, u) > 0)
                => UserCount(train_data, u) > 0

\* what the code does keep: an evaluation user is without a train row only
\* when every row value of the user has a held-out copy
TrainRowUnlessAllHeldOut ==
    spc = "done" =>
        \A u \in Users :
            (valGroup[u] > 0 \/ testGroup[u] > 0) =>
                (UserCount(train_data, u) = 0
                    <=> \A r \in Rows : (r.user_id = u /\ data[r] > 0)
                            => val_data[r] + test_data[r] > 0)

(***************************************************************************)
(* Claims about the tables the models are fitted on (SpecRefitData).       *)
(***************************************************************************)
\* C13: for every input table, with or without duplicate rows, no row value
\* present in test is present in train, in val, or in the train + val union
\* on which the driver refits the final model.
C13_NoTestRowInFitData ==
    /\ spc \in {"done", "refit"} =>
          \A r \in Rows : test_data[r] > 0 =>
              train_data[r] = 0 /\ val_data[r] = 0
    /\ spc = "refit" =>
          /\ \A r \in Rows : new_train_data[r] = train_data[r] + val_data[r]
          /\ \A r \in Rows : test_data[r] > 0 => new_train_data[r] = 0

\* a table with two copies of a row of a test-group user, one copy held out
\* and absent from the union, next to a validation-group user with a
\* held-out row in the union and a train-group user
C13_Witness ==
    /\ spc = "refit"
    /\ \E r, q, p \in Rows :
          /\ data[r] = 2
          /\ testGroup[r.user_id] > 0
          /\ test_data[r] = 1
          /\ new_train_data[r] = 0
          /\ valGroup[q.user_id] > 0
          /\ val_data[q] = 1
          /\ new_train_data[q] = 1
          /\ trainGroup[p.user_id] > 0
          /\ new_train_data[p] = 1

(***************************************************************************)
(* Claims about create_subset (SpecFilter).                                *)
(***************************************************************************)
\* C2: for every table and integer threshold get_frequent_user returns the
\* users of the input whose row count is >= threshold, each once, and no
\* other user.
C2_FrequentUsersExactly ==
    fpc # "filter" =>
        /\ fpc # "fault"
        /\ \A u \in Users :
              user_id_frequent[u] =
                  IF UserCount(data, u) > 0 /\ UserCount(data, u) >= threshold
                  THEN 1 ELSE 0

\* the same statement for the calls that return
FrequentUsersWhenReturned ==
    fpc \in {"sample", "done"} =>
        \A u \in Users :
            user_id_frequent[u] =
                IF UserCount(data, u) > 0 /\ UserCount(data, u) >= threshold
                THEN 1 ELSE 0

\* C7: create_subset never alters or duplicates rows: the output's rows are
\* input rows with their multiplicity, and per user either all the input
\* rows are in the output (then the user's count is >= threshold and the
\* user was sampled) or none.
C7_RowsKeptWholeOrNotAtAll ==
    fpc = "done" =>
        /\ DOMAIN downsample_data = Rows
        /\ \A u \in Users :
              \/ /\ \A r \in Rows : r.user_id = u => downsample_data[r] = data[r]
                 /\ UserCount(data, u) > 0 =>
                        /\ UserCount(data, u) >= threshold
                        /\ user_id_1_perc[u] = 1
              \/ \A r \in Rows : r.user_id = u => downsample_data[r] = 0

\* one user kept with both copies of a duplicated row, another user dropped
C7_Witness ==
    /\ fpc = "done"
    /\ \E u, v \in Users :
          /\ u # v
          /\ \E r \in Rows : r.user_id = u /\ data[r] = 2 /\ downsample_data[r] = 2
          /\ UserCount(data, v) > 0
          /\ UserCount(downsample_data, v) = 0

(***************************************************************************)
(* Claims about tuning_als (SpecTune).                                     *)
(***************************************************************************)
Completed == tpc = "returned" /\ tuning_result # None

\* C3: when tuning_als completes, the best configuration is one of the
\* records of the tuning table and its score is the minimum of the recorded
\* scores for rmse, mae, r2 and the maximum for precisionAt,
\* meanAveragePrecision, ndcgAt.
C3_BestIsExtremalRecord ==
    Completed =>
        LET best   == the(tuning_result)[1]
            table  == the(tuning_result)[2]
            m      == the(metrics)
            scores == table[m]
        IN  /\ scores # <<>>
            /\ \E j \in 1..Len(scores) :
                  /\ best["rank"] = table["rank"][j]
                  /\ best["regParam"] = table["regParam"][j]
                  /\ best[m] = scores[j]
            /\ m \in {"rmse", "mae", "r2"} =>
                  \A j \in 1..Len(scores) : best[m] <= scores[j]
            /\ m \in {"precisionAt", "meanAveragePrecision", "ndcgAt"} =>
                  \A j \in 1..Len(scores) : best[m] >= scores[j]

\* the spec's scenario: rmse, scores [1.2, 0.9], the best is the second
C3_Witness ==
    /\ Completed
    /\ metrics = Some("rmse")
    /\ the(tuning_result)[2]["rmse"] = <<12000, 9000>>
    /\ the(tuning_result)[1]["rmse"] = 9000
    /\ the(tuning_result)[1]["regParam"] = 10

\* C5: the grid is evaluated strictly sequentially in product order: a
\* configuration's rank and regParam are appended, one model is fitted, and
\* its score is appended before the next configuration starts; on
\* completion the table has |rank_list| * |regParam_list| records, its three
\* columns have equal length and the i-th record holds the i-th pair.
C5_SequentialGridInProductOrder ==
    (tuning_table # None /\ the(metrics) \in regression_metrics \cup ranking_metrics) =>
        LET table   == the(tuning_table)
            ranks   == the(rank_list)
            regs    == the(regParam_list)
            started == Len(table["rank"])
            scored  == Len(table[the(metrics)])
        IN  /\ Len(table["regParam"]) = started
            /\ started = i
            /\ tpc = "loop" => scored = started /\ fits = started
            /\ tpc = "fit" => scored = started - 1 /\ fits = started - 1
            /\ tpc \in {"eval", "record"} => scored = started - 1 /\ fits = started
            /\ Completed =>
                  /\ started = Len(ranks) * Len(regs)
                  /\ scored = started
                  /\ fits = started
            /\ \A a \in 1..Len(ranks), b \in 1..Len(regs) :
                  (a - 1) * Len(regs) + b <= started =>
                      /\ table["rank"][(a - 1) * Len(regs) + b] = ranks[a]
                      /\ table["regParam"][(a - 1) * Len(regs) + b] = regs[b]

\* a completed 2 x 2 grid
C5_Witness ==
    /\ Completed
    /\ rank_list = Some(<<5, 10>>)
    /\ regParam_list = Some(<<1, 10>>)
    /\ the(tuning_result)[2]["rank"] = <<5, 5, 10, 10>>
    /\ the(tuning_result)[2]["regParam"] = <<1, 10, 1, 10>>
    /\ Len(the(tuning_result)[2][the(metrics)]) = 4
    /\ fits = 4

\* C6: with rank_list, regParam_list, train_data, val_data or metrics None,
\* tuning_als returns None early: no fault, no fitted model, no tuning table,
\* no best configuration.
C6_MissingArgumentReturnsEarly ==
    (/\ tpc # "call"
     /\ \/ rank_list = None \/ regParam_list = None
        \/ train_arg = None \/ val_arg = None \/ metrics = None) =>
        /\ tpc = "returned"
        /\ tuning_result = None
        /\ tuning_table = None
        /\ fits = 0
        /\ i = 0

\* only val_data is missing
C6_Witness ==
    /\ tpc = "returned"
    /\ tuning_result = None
    /\ val_arg = None
    /\ rank_list = Some(<<5, 10>>)
    /\ regParam_list = Some(<<1, 10>>)
    /\ train_arg # None
    /\ metrics = Some("ndcgAt")

\* a call that passed the argument checks with a metric name of neither
\* family and a non-empty grid
UnknownMetricRun ==
    /\ tuning_table # None
    /\ the(metrics) \notin regression_metrics \cup ranking_metrics
    /\ param_combination # <<>>

\* a pair is returned only for a metric name of the two families and a
\* non-empty grid
PairOnlyForKnownMetric ==
    tuning_result # None =>
        /\ the(metrics) \in regression_metrics \cup ranking_metrics
        /\ param_combination # <<>>

\* an unknown-metric run never returns, never starts a second grid point and
\* never reaches best-record selection
StopsAtFirstGridPoint ==
    UnknownMetricRun =>
        /\ tpc # "returned"
        /\ tuning_result = None
        /\ i <= 1
        /\ tpc = "loop" => i = 0
        /\ fits <= i

\* the run has faulted after the fit of its last configuration succeeded
\* (fits = i), that is at the append of the score on line 170
FaultedAfterFit == tpc = "fault" /\ fits = i

\* C12 as stated: tuning_als returns a pair only for one of the six metric
\* names and a non-empty grid; with another metric name and a non-empty grid
\* it faults at the first grid point after one model was fitted, with one
\* entry in the rank and regParam columns and none in the metric column, and
\* never reaches best-record selection.
C12_UnknownMetricFaultsAtFirstPoint ==
    /\ PairOnlyForKnownMetric
    /\ StopsAtFirstGridPoint
    /\ (UnknownMetricRun /\ FaultedAfterFit) =>
          /\ i = 1
          /\ fits = 1
          /\ Len(the(tuning_table)["rank"]) = 1
          /\ Len(the(tuning_table)["regParam"]) = 1
          /\ Len(the(tuning_table)[the(metrics)]) = 0

\* C12 amended: as stated, except that the metric column has no entry only
\* when the metric name is not "rank" or "regParam"; with one of these two
\* names the metric key of the table is that parameter column, which holds
\* the one entry.  When the fit itself fails, the fault comes at the first
\* grid point with the two entries appended and no model fitted.
C12_UnknownMetricFaultsColumnMayAlias ==
    /\ PairOnlyForKnownMetric
    /\ StopsAtFirstGridPoint
    /\ (UnknownMetricRun /\ tpc = "fault") =>
          /\ i = 1
          /\ Len(the(tuning_table)["rank"]) = 1
          /\ Len(the(tuning_table)["regParam"]) = 1
          /\ the(tuning_table)["rank"] = <<the(rank_list)[1]>>
          /\ the(tuning_table)["regParam"] = <<the(regParam_list)[1]>>
          /\ DOMAIN the(tuning_table) = {"rank", "regParam", the(metrics)}
          /\ the(metrics) \notin {"rank", "regParam"} =>
                Len(the(tuning_table)[the(metrics)]) = 0
    /\ (UnknownMetricRun /\ FaultedAfterFit) => fits = 1

\* metric "accuracy" on a 2 x 2 grid: faulted after one fit, one rank, one
\* regParam and no score recorded
C12_Witness ==
    /\ tpc = "fault"
    /\ metrics = Some("accuracy")
    /\ rank_list = Some(<<5, 10>>)
    /\ regParam_list = Some(<<1, 10>>)
    /\ i = 1
    /\ fits = 1
    /\ the(tuning_table)["rank"] = <<5>>
    /\ the(tuning_table)["regParam"] = <<1>>
    /\ the(tuning_table)["accuracy"] = <<>>

(***************************************************************************)
(* Claims about the driver (SpecDriver).                                   *)
(***************************************************************************)
StageOrder ==
    <<"read", "split", "tune", "refit", "predict", "score", "persist", "log">>

IsPrefix(s, t) == Len(s) <= Len(t) /\ \A j \in 1..Len(s) : s[j] = t[j]

Position(stage) == CHOOSE j \in 1..Len(StageOrder) : StageOrder[j] = stage

TuningGaveNothing ==
    \/ tpc = "fault"
    \/ tpc = "returned" /\ tuning_result = None
    \/ metrics = None
    \/ the(metrics) \notin
          {"rmse", "mae", "r2", "precisionAt", "meanAveragePrecision", "ndcgAt"}

\* C8: the stages run in the order read, split, tune, refit (train + val,
\* best configuration), predict, score, persist, log; a failing stage aborts
\* the run and no later stage executes (tuning_als returning None or an
\* unrecognised metric end the run at the tune stage); a history record
\* is appended only after the model is saved, and a model saved before a
\* failing history write stays saved.
C8_StagesInOrderAbortOnFailure ==
    /\ IsPrefix(stages, StageOrder)
    /\ dpc = "aborted" =>
          /\ failed_at # None
          /\ stages = SubSeq(StageOrder, 1, Position(the(failed_at)) - 1)
    /\ dpc \notin {"aborted", "done"} =>
          /\ failed_at = None
          /\ stages = SubSeq(StageOrder, 1, Position(dpc) - 1)
    /\ dpc = "done" => stages = StageOrder /\ failed_at = None
    /\ TuningGaveNothing =>
          /\ Len(stages) <= 2
          /\ model = None
          /\ ~model_saved
          /\ history = 0
    /\ model # None =>
          /\ the(model).data = <<"train_data", "val_data">>
          /\ the(model).rank = the(tuning_result)[1]["rank"]
          /\ the(model).regParam = the(tuning_result)[1]["regParam"]
    /\ model_saved <=> Len(stages) >= 7
    /\ history = (IF Len(stages) = 8 THEN 1 ELSE 0)
    /\ history > 0 => model_saved

\* the history write failed after the model was saved
C8_Witness ==
    /\ dpc = "aborted"
    /\ failed_at = Some("log")
    /\ stages = <<"read", "split", "tune", "refit", "predict", "score", "persist">>
    /\ model_saved
    /\ history = 0

(***************************************************************************)
(* Claims about the evaluators' top-k windows (SpecTopK).                  *)
(***************************************************************************)
Min(a, b) == IF a <= b THEN a ELSE b

PredUserCount(t, u) == SumOver(t, {r \in DOMAIN t : r.user_id = u})

ItemCount(items, u) ==
    IF u \in DOMAIN items THEN SumOver(items[u], Books) ELSE 0

\* C10: in both evaluators the window keeps, for every user with n rows,
\* exactly min(k, n) rows, never more than k, ties included: the rows with
\* the highest prediction (the highest rating for the actual-items list).
C10_ExactlyTopKRowsKept ==
    /\ (evaluator = "regression" /\ kpc = "evaluate") =>
          /\ \A u \in PredUsers :
                PredUserCount(user_items_prediction_df, u)
                    = Min(k, PredUserCount(dataset, u))
          /\ \A r, q \in PredRows :
                (/\ r.user_id = q.user_id
                 /\ user_items_prediction_df[r] > 0
                 /\ user_items_prediction_df[q] < dataset[q])
                    => r.prediction >= q.prediction
    /\ (evaluator = "ranking" /\ kpc \in {"actual", "evaluate"}) =>
          \A u \in PredUsers :
              ItemCount(perUserPredictedItemsDF, u) = Min(k, PredUserCount(dataset, u))
    /\ (evaluator = "ranking" /\ kpc = "evaluate") =>
          \A u \in PredUsers :
              ItemCount(perUserActualItemsDF, u) = Min(k, PredUserCount(dataset, u))

\* what the windows do keep: every row whose value is among the user's k
\* highest, so at least min(k, n) rows, and exactly that many when no two
\* rows of the user share a value
KeptAtLeastTopK ==
    (evaluator = "regression" /\ kpc = "evaluate") =>
        \A u \in PredUsers :
            /\ PredUserCount(user_items_prediction_df, u)
                  >= Min(k, PredUserCount(dataset, u))
            /\ (\A r, q \in PredRows :
                    (r.user_id = u /\ q.user_id = u /\ dataset[r] > 0 /\ dataset[q] > 0
                     /\ r.prediction = q.prediction) => (r = q /\ dataset[r] = 1))
                => PredUserCount(user_items_prediction_df, u)
                      = Min(k, PredUserCount(dataset, u))

====
